---- MODULE Spec2Model ----
(***************************************************************************)
(* Least-cost path routing over a slope-derived cost surface                *)
(* (notebooks/least_cost_path.ipynb).                                       *)
(*                                                                         *)
(* Numbers.  The notebook computes in float64.  The model computes in      *)
(* exact arithmetic:                                                       *)
(*   - an elevation is a whole number of cell spacings (k * Res metres) or  *)
(*     NaN;                                                                 *)
(*   - a slope is a whole number of tenths of a degree or NaN;              *)
(*   - a cost grid is a grid of numerators over one denominator `den`       *)
(*     (slope.max() - slope.min()), so cost = num / den;                    *)
(*   - an accumulated path cost is a pair [a, b] that stands for            *)
(*     (a + b * sqrt(2)) / (2 * den); pairs are compared exactly.           *)
(***************************************************************************)
EXTENDS Integers, Sequences, FiniteSets, TLC

\* ------------------------------------------------------------------ bounds
Height == 2
Width == 3
MaxElev == 1

\* ------------------------------------------------------- program constants
Res == 32
Penalty == 9999
CostLow == 1
CostSpan == 9

\* -------------------------------------------------------------- the grid
Rows == 0 .. (Height - 1)
Cols == 0 .. (Width - 1)
Cells == Rows \X Cols

\* A float64 cell: NaN or a finite number.
NaN == [nan |-> TRUE, v |-> 0]
Fin(x) == [nan |-> FALSE, v |-> x]

\* Float arithmetic on cells: NaN propagates.
FSub(x, y) == IF x.nan \/ y.nan THEN NaN ELSE Fin(x.v - y.v)

\* ---------------------------------------------------------------- slope
\* np.gradient along one axis with spacing h, times 2 (so that the result is
\* a whole number): central difference (f[i+1] - f[i-1]) / (2h) inside,
\* one-sided (f[1] - f[0]) / h and (f[n-1] - f[n-2]) / h at the two ends.
Gradient2(f, i, n, h) ==
    IF i = 0 THEN
        LET d == FSub(f[1], f[0]) IN IF d.nan THEN NaN ELSE Fin((2 * d.v) \div h)
    ELSE IF i = n - 1 THEN
        LET d == FSub(f[n - 1], f[n - 2]) IN IF d.nan THEN NaN ELSE Fin((2 * d.v) \div h)
    ELSE
        LET d == FSub(f[i + 1], f[i - 1]) IN IF d.nan THEN NaN ELSE Fin(d.v \div h)

\* np.degrees(np.arctan(np.sqrt(n) / 2)) in tenths of a degree, n = 4 * (dz_dx^2 + dz_dy^2).
ArctanTenths ==
    (0 :> 0) @@ (1 :> 266) @@ (2 :> 353) @@ (4 :> 450) @@ (5 :> 482) @@
    (8 :> 547) @@ (9 :> 563) @@ (10 :> 577) @@ (13 :> 610) @@ (16 :> 634) @@
    (17 :> 641) @@ (18 :> 648) @@ (20 :> 659) @@ (25 :> 682) @@ (26 :> 686) @@
    (29 :> 696) @@ (32 :> 705) @@ (34 :> 711) @@ (36 :> 716) @@ (37 :> 718) @@
    (40 :> 725) @@ (41 :> 727) @@ (45 :> 734) @@ (50 :> 742) @@ (52 :> 745) @@
    (61 :> 756) @@ (72 :> 767)

\* slope_degrees of one cell of the elevation grid d.
SlopeAt(d, rc) ==
    LET r == rc[1]
        c == rc[2]
        col == [i \in Rows |-> d[<<i, c>>]]
        row == [j \in Cols |-> d[<<r, j>>]]
        g0 == Gradient2(col, r, Height, Res)
        g1 == Gradient2(row, c, Width, Res)
    IN  IF g0.nan \/ g1.nan THEN NaN
        ELSE Fin(ArctanTenths[g0.v * g0.v + g1.v * g1.v])

SlopeDegrees(d) == [rc \in Cells |-> SlopeAt(d, rc)]

\* --------------------------------------------------------- cost surface
Valid(g) == {rc \in Cells : ~g[rc].nan}

\* xarray min() / max(): NaN cells are skipped; NaN when every cell is NaN.
GridMin(g) ==
    IF Valid(g) = {} THEN NaN
    ELSE Fin(CHOOSE m \in {g[rc].v : rc \in Valid(g)} :
                 \A rc \in Valid(g) : m <= g[rc].v)

GridMax(g) ==
    IF Valid(g) = {} THEN NaN
    ELSE Fin(CHOOSE m \in {g[rc].v : rc \in Valid(g)} :
                 \A rc \in Valid(g) : m >= g[rc].v)

\* The denominator slope.max() - slope.min().
Range(g) == FSub(GridMax(g), GridMin(g))

\* cost_surface = 1 + (slope - min) / (max - min) * 9, as numerators over the
\* denominator den = max - min.  A cell is NaN when its slope is NaN, when
\* min/max are NaN, and when the division is 0 / 0 (max = min).
CostSurface(g) ==
    LET mn == GridMin(g)
        rg == Range(g)
        degenerate == rg.nan \/ rg.v = 0
    IN  [den |-> IF degenerate THEN 1 ELSE rg.v,
         val |-> [rc \in Cells |->
                    LET num == FSub(g[rc], mn) IN
                    IF num.nan \/ degenerate THEN NaN
                    ELSE Fin(CostLow * rg.v + num.v * CostSpan)]]

\* np.nan_to_num(values, nan=9999, posinf=9999, neginf=9999).
NanToNum(cs) ==
    [den |-> cs.den,
     val |-> [rc \in Cells |->
                IF cs.val[rc].nan THEN Penalty * cs.den ELSE cs.val[rc].v]]

\* ------------------------------------------------------- coordinates
\* rasterio.transform.rowcol(transform, x, y) for the north-up transform
\* Affine(Res, 0, 0, 0, -Res, 0): the inverse transform, then math.floor.
\* No bounds check is made.
RowCol(x, y) == <<(0 - y) \div Res, x \div Res>>

\* Ground coordinates of the centre of cell (r, c), in or out of the grid.
Centre(r, c) == <<c * Res + Res \div 2, 0 - (r * Res + Res \div 2)>>

\* ------------------------------------------------ accumulated path costs
\* [a, b] stands for (a + b * sqrt(2)) / (2 * den); inf is float64 infinity.
Zero == [inf |-> FALSE, a |-> 0, b |-> 0]
Inf == [inf |-> TRUE, a |-> 0, b |-> 0]

\* The sign of p / q - (1 + sqrt(2)) for p >= 0 and q > 0, by the continued
\* fraction 1 + sqrt(2) = [2; 2, 2, ...].
RECURSIVE CmpSilver(_, _)
CmpSilver(p, q) ==
    LET k == p \div q
        r == p - 2 * q
    IN  IF k < 2 THEN -1
        ELSE IF k > 2 THEN 1
        ELSE IF r = 0 THEN -1
        ELSE 0 - CmpSilver(q, r)

\* The sign of p + q * sqrt(2).
Sign(p, q) ==
    IF p = 0 /\ q = 0 THEN 0
    ELSE IF p >= 0 /\ q >= 0 THEN 1
    ELSE IF p <= 0 /\ q <= 0 THEN -1
    ELSE IF p > 0 THEN CmpSilver(p - q, 0 - q)
    ELSE 0 - CmpSilver(q - p, q)

\* x < y on float64 values.
Less(x, y) ==
    IF x.inf THEN FALSE
    ELSE IF y.inf THEN TRUE
    ELSE Sign(x.a - y.a, x.b - y.b) < 0

Leq(x, y) == ~Less(y, x)

\* ------------------------------------------- skimage.graph.MCP_Geometric
\* make_offsets(2, fully_connected=True): np.ndenumerate order of the 3 x 3
\* mask without its centre.
Offsets ==
    (0 :> <<-1, -1>>) @@ (1 :> <<-1, 0>>) @@ (2 :> <<-1, 1>>) @@
    (3 :> <<0, -1>>) @@ (4 :> <<0, 1>>) @@
    (5 :> <<1, -1>>) @@ (6 :> <<1, 0>>) @@ (7 :> <<1, 1>>)

NumOffsets == Cardinality(DOMAIN Offsets)


Shift(rc, i) == <<rc[1] + Offsets[i][1], rc[2] + Offsets[i][2]>>

\* The edge map test: the offset does not leave the grid (no wraparound).
UseOffset(rc, i) == Shift(rc, i) \in Cells

\* _normalize_indices for one index: a negative component i becomes s + i;
\* the result is <<>> (None) when a component is then outside [0, s).
NormalizeIndex(rc) ==
    LET r == IF rc[1] < 0 THEN Height + rc[1] ELSE rc[1]
        c == IF rc[2] < 0 THEN Width + rc[2] ELSE rc[2]
    IN  IF r \in Rows /\ c \in Cols THEN <<r, c>> ELSE <<>>

\* Mutant of IsDiagonal: a move that changes the row counts as diagonal.
IsDiagonalRowOnly(i) == Offsets[i][1] # 0

\* The offset has length sqrt(2) (offset_lengths).
IsDiagonal(i) == Offsets[i][1] # 0 /\ Offsets[i][2] # 0

\* Mutant of TravelCost: the offset length is left out (every move has
\* length 1).
TravelCostNoLength(cum, old_cost, new_cost, i) ==
    [inf |-> FALSE, a |-> cum.a + old_cost + new_cost, b |-> cum.b]

\* Mutant of TravelCost: MCP._travel_cost, the cost of the entered cell alone.
TravelCostNewOnly(cum, old_cost, new_cost, i) ==
    [inf |-> FALSE, a |-> cum.a + 2 * new_cost, b |-> cum.b]

\* MCP_Geometric._travel_cost: offset_length * 0.5 * (old_cost + new_cost),
\* added to the cumulative cost cum.
TravelCost(cum, old_cost, new_cost, i) ==
    IF IsDiagonal(i)
    THEN [inf |-> FALSE, a |-> cum.a, b |-> cum.b + old_cost + new_cost]
    ELSE [inf |-> FALSE, a |-> cum.a + old_cost + new_cost, b |-> cum.b]

\* FastUpdateBinaryHeap as the sequence of its leaves <<value, reference>>.
\* pop_fast descends to the left on values[i] <= values[i + 1]: the leftmost
\* leaf of minimum value.
HeapMinPos(h) ==
    CHOOSE i \in 1 .. Len(h) :
        /\ \A j \in 1 .. Len(h) : Leq(h[i].value, h[j].value)
        /\ \A j \in 1 .. (i - 1) : Less(h[i].value, h[j].value)

\* _remove: the last leaf takes the place of the removed one.
HeapRemove(h, i) ==
    LET n == Len(h)
    IN  IF i = n THEN SubSeq(h, 1, n - 1)
        ELSE [SubSeq(h, 1, n - 1) EXCEPT ![i] = h[n]]

HeapPos(h, ref) ==
    IF \E i \in 1 .. Len(h) : h[i].ref = ref
    THEN CHOOSE i \in 1 .. Len(h) : h[i].ref = ref
    ELSE 0

\* Mutant of PushIfLower: a reference already in the heap is never updated.
PushIfLowerNoUpdate(h, value, ref) ==
    IF HeapPos(h, ref) # 0 THEN [heap |-> h, pushed |-> FALSE]
    ELSE [heap |-> Append(h, [value |-> value, ref |-> ref]), pushed |-> TRUE]

\* push_if_lower_fast: [heap, pushed].
PushIfLower(h, value, ref) ==
    LET i == HeapPos(h, ref)
    IN  IF i # 0 THEN
            IF Less(value, h[i].value)
            THEN [heap |-> [h EXCEPT ![i].value = value], pushed |-> TRUE]
            ELSE [heap |-> h, pushed |-> FALSE]
        ELSE [heap |-> Append(h, [value |-> value, ref |-> ref]), pushed |-> TRUE]

\* Mutant of StartCost: use_start_cost = 1, the start is pushed at its own
\* cost as in MCP.
StartCostOfCell(costs, s) == [inf |-> FALSE, a |-> 2 * costs[s], b |-> 0]

\* use_start_cost = 0 (MCP_Geometric.__init__): the start is pushed at cost 0.
StartCost(costs, s) == Zero

\* Mutant of AlreadyFound: a popped neighbour is pushed again.
AlreadyFoundNever(cum, new_index) == FALSE

\* flat_cumulative_costs[new_index] != inf: the neighbour was popped before.
AlreadyFound(cum, new_index) == ~cum[new_index].inf

\* The neighbour loop of find_costs for the popped cell index, offsets
\* i .. 7 in order, on the search state st = [heap, tb].
RECURSIVE Relax(_, _, _, _, _)
Relax(st, costs, cum, index, i) ==
    IF i = NumOffsets THEN st
    ELSE IF ~UseOffset(index, i) THEN Relax(st, costs, cum, index, i + 1)
    ELSE
        LET new_index == Shift(index, i)
            new_cost == costs[new_index]
        IN  IF new_cost < 0 THEN Relax(st, costs, cum, index, i + 1)
            ELSE IF AlreadyFound(cum, new_index) THEN Relax(st, costs, cum, index, i + 1)
            ELSE
                LET p == PushIfLower(st.heap,
                             TravelCost(cum[index], costs[index], new_cost, i),
                             new_index)
                    tb == IF p.pushed THEN [st.tb EXCEPT ![new_index] = i] ELSE st.tb
                IN  Relax([heap |-> p.heap, tb |-> tb], costs, cum, index, i + 1)

\* find_costs before its loop, on S = [heap, cum, tb, popped, found].
SearchStart(costs, s) ==
    [heap |-> <<[value |-> StartCost(costs, s), ref |-> s]>>,
     cum |-> [rc \in Cells |-> Inf],
     tb |-> [[rc \in Cells |-> -2] EXCEPT ![s] = -1],
     popped |-> <<>>,
     found |-> FALSE]

\* One iteration of the find_costs loop (the heap is not empty): pop the
\* minimum, record its cost, stop at the end cell e, otherwise examine the
\* neighbours.
PopStep(costs, e, S) ==
    LET i == HeapMinPos(S.heap)
        cost == S.heap[i].value
        index == S.heap[i].ref
        rest == HeapRemove(S.heap, i)
        cum == [S.cum EXCEPT ![index] = cost]
        st == Relax([heap |-> rest, tb |-> S.tb], costs, cum, index, 0)
    IN  IF index = e
        THEN [heap |-> rest, cum |-> cum, tb |-> S.tb,
              popped |-> Append(S.popped, index), found |-> TRUE]
        ELSE [heap |-> st.heap, cum |-> cum, tb |-> st.tb,
              popped |-> Append(S.popped, index), found |-> FALSE]

\* Mutant of TracebackFrom: the traceback is returned without [::-1] (end
\* first).
RECURSIVE TracebackUnreversed(_, _)
TracebackUnreversed(tb, rc) ==
    IF tb[rc] = -1 THEN <<rc>>
    ELSE LET i == tb[rc]
             prev == <<rc[1] - Offsets[i][1], rc[2] - Offsets[i][2]>>
         IN  <<rc>> \o TracebackUnreversed(tb, prev)

\* MCP.traceback from cell rc back to the cell marked -1, returned reversed
\* (start first).
RECURSIVE TracebackFrom(_, _)
TracebackFrom(tb, rc) ==
    IF tb[rc] = -1 THEN <<rc>>
    ELSE LET i == tb[rc]
             prev == <<rc[1] - Offsets[i][1], rc[2] - Offsets[i][2]>>
         IN  Append(TracebackFrom(tb, prev), rc)

\* find_costs([s], [e]) run to its end, then traceback(e) and costs[e]: the
\* value of route_through_array(costs, s, e, fully_connected=True).
RECURSIVE RunSearch(_, _, _)
RunSearch(costs, e, S) ==
    IF S.found \/ S.heap = <<>> THEN S
    ELSE RunSearch(costs, e, PopStep(costs, e, S))

RouteThroughArray(costs, s, e) ==
    LET S == RunSearch(costs, e, SearchStart(costs, s))
    IN  [path |-> TracebackFrom(S.tb, e), cost |-> S.cum[e]]

\* -------------------------------------------------------- inputs
Elevations == {Fin(k * Res) : k \in 0 .. MaxElev} \cup {NaN}
DemGrids == [Cells -> Elevations]

\* Sample ground points: the centre of every cell, and centres of cells one
\* step outside each edge and beyond the reach of a negative index.
OutsideCells ==
    {<<-1, 0>>, <<0, -1>>, <<Height, 0>>, <<0, Width>>, <<0 - Height - 1, 0>>}
Points == {Centre(rc[1], rc[2]) : rc \in Cells \cup OutsideCells}

NoGrid == [den |-> 1, val |-> [rc \in Cells |-> 0]]
NoIndex == <<>>

VARIABLES
    pc,                     \* the notebook cell / loop position to run next
    dem,                    \* dem.values
    slope,                  \* slope.values (slope_degrees)
    cost_surface,           \* cost_surface.values, [den, val]
    start_rc, end_rc,       \* (start_row, start_col), (end_row, end_col)
    cost_array,             \* cost_array, [den, val]
    starts, ends,           \* find_costs: the normalized start and end
    costs_heap,             \* MCP.costs_heap
    flat_cumulative_costs,  \* MCP.flat_cumulative_costs
    traceback_offsets,      \* MCP.traceback_offsets
    popped,                 \* the cells popped so far, in order
    indices, total_cost,    \* the result of route_through_array
    path_mask,              \* path_mask
    error                   \* the exception that ended the run, or "none"

vars == <<pc, dem, slope, cost_surface, start_rc, end_rc, cost_array, starts,
          ends, costs_heap, flat_cumulative_costs, traceback_offsets, popped,
          indices, total_cost, path_mask, error>>

gridVars == <<dem, slope, cost_surface>>
searchVars == <<starts, ends, costs_heap, flat_cumulative_costs,
                traceback_offsets, popped>>
resultVars == <<indices, total_cost, path_mask>>

InitRest ==
    /\ start_rc = NoIndex /\ end_rc = NoIndex
    /\ cost_array = NoGrid
    /\ starts = NoIndex /\ ends = NoIndex
    /\ costs_heap = <<>>
    /\ flat_cumulative_costs = [rc \in Cells |-> Inf]
    /\ traceback_offsets = [rc \in Cells |-> -2]
    /\ popped = <<>>
    /\ indices = <<>> /\ total_cost = Inf
    /\ path_mask = [rc \in Cells |-> 0]
    /\ error = "none"

\* Cell d915fcec: np.gradient, slope_degrees.
ComputeSlope ==
    /\ pc = "slope"
    /\ slope' = SlopeDegrees(dem)
    /\ pc' = "cost"
    /\ UNCHANGED <<dem, cost_surface, start_rc, end_rc, cost_array, searchVars,
                   resultVars, error>>

\* Cell 8eb7c6a4: slope_normalized, cost_surface.
BuildCostSurface ==
    /\ pc = "cost"
    /\ cost_surface' = CostSurface(slope)
    /\ pc' = "setup"
    /\ UNCHANGED <<dem, slope, start_rc, end_rc, cost_array, searchVars,
                   resultVars, error>>

\* Cell f42698cf: start_coords, end_coords, rowcol.
RoutingSetup(P) ==
    /\ pc = "setup"
    /\ \E s \in P, e \in P :
        /\ start_rc' = RowCol(s[1], s[2])
        /\ end_rc' = RowCol(e[1], e[2])
    /\ pc' = "nan_to_num"
    /\ UNCHANGED <<gridVars, cost_array, searchVars, resultVars, error>>

\* Cell 473bb74c: cost_array = np.nan_to_num(...).
ReplaceNaN ==
    /\ pc = "nan_to_num"
    /\ cost_array' = NanToNum(cost_surface)
    /\ pc' = "route"
    /\ UNCHANGED <<gridVars, start_rc, end_rc, searchVars, resultVars, error>>

\* route_through_array -> find_costs up to the loop: normalize the start and
\* the end (ValueError when out of bounds), push the start at cost 0.
FindCostsStart ==
    /\ pc = "route"
    /\ LET s == NormalizeIndex(start_rc)
           e == NormalizeIndex(end_rc)
       IN  IF s = <<>> \/ e = <<>> THEN
               /\ error' = "ValueError"
               /\ pc' = "failed"
               /\ UNCHANGED <<searchVars>>
           ELSE
               LET S == SearchStart(cost_array.val, s)
               IN  /\ starts' = s
                   /\ ends' = e
                   /\ costs_heap' = S.heap
                   /\ flat_cumulative_costs' = S.cum
                   /\ traceback_offsets' = S.tb
                   /\ popped' = S.popped
                   /\ pc' = "loop"
                   /\ UNCHANGED error
    /\ UNCHANGED <<gridVars, start_rc, end_rc, cost_array, resultVars>>

\* One iteration of the find_costs loop; the loop ends when the heap is
\* empty or the end cell was popped.
ExpandStep ==
    /\ pc = "loop"
    /\ IF costs_heap = <<>> THEN
           /\ pc' = "traceback"
           /\ UNCHANGED <<costs_heap, flat_cumulative_costs, traceback_offsets, popped>>
       ELSE
           LET S == PopStep(cost_array.val, ends,
                            [heap |-> costs_heap, cum |-> flat_cumulative_costs,
                             tb |-> traceback_offsets, popped |-> popped,
                             found |-> FALSE])
           IN  /\ costs_heap' = S.heap
               /\ flat_cumulative_costs' = S.cum
               /\ traceback_offsets' = S.tb
               /\ popped' = S.popped
               /\ pc' = IF S.found THEN "traceback" ELSE "loop"
    /\ UNCHANGED <<gridVars, start_rc, end_rc, cost_array, starts, ends,
                   resultVars, error>>

\* return m.traceback(end), costs[end]; then the path_mask loop of cell
\* 05b3781e.
TracebackAndMask ==
    /\ pc = "traceback"
    /\ IF flat_cumulative_costs[ends].inf THEN
           /\ error' = "ValueError"
           /\ pc' = "failed"
           /\ UNCHANGED resultVars
       ELSE
           LET path == TracebackFrom(traceback_offsets, ends)
           IN  /\ indices' = path
               /\ total_cost' = flat_cumulative_costs[ends]
               /\ path_mask' = [rc \in Cells |->
                                   IF \E k \in 1 .. Len(path) : path[k] = rc
                                   THEN 1 ELSE 0]
               /\ pc' = "done"
               /\ UNCHANGED error
    /\ UNCHANGED <<gridVars, start_rc, end_rc, cost_array, searchVars>>

\* ------------------------------------------------------ specifications
\* SpecCost: every elevation grid, through slope, cost surface and
\* nan_to_num, with one pair of end points.
CornerPoints == {Centre(0, 0)}

InitCost ==
    /\ pc = "slope"
    /\ dem \in DemGrids
    /\ slope = [rc \in Cells |-> NaN]
    /\ cost_surface = NoGrid
    /\ InitRest

NextCost ==
    \/ ComputeSlope
    \/ BuildCostSurface
    \/ RoutingSetup(CornerPoints)
    \/ ReplaceNaN

SpecCost == InitCost /\ [][NextCost]_vars

\* Spec: routing.  The run starts after cell 8eb7c6a4, with one elevation
\* grid for every cost surface that the elevation grids produce.
CostSurfaceOf(d) == CostSurface(SlopeDegrees(d))

SurfaceOfDem == {<<CostSurfaceOf(d), d>> : d \in DemGrids}

RoutingDems ==
    {(CHOOSE p \in SurfaceOfDem : p[1] = cs)[2] : cs \in {p[1] : p \in SurfaceOfDem}}

Init ==
    /\ pc = "setup"
    /\ dem \in RoutingDems
    /\ slope = SlopeDegrees(dem)
    /\ cost_surface = CostSurface(slope)
    /\ InitRest

Next ==
    \/ RoutingSetup(Points)
    \/ ReplaceNaN
    \/ FindCostsStart
    \/ ExpandStep
    \/ TracebackAndMask

Spec == Init /\ [][Next]_vars

\* ------------------------------------------------- reference definitions
\* The 8-connected grid graph and its path costs, defined independently of
\* the search.
Abs(x) == IF x < 0 THEN 0 - x ELSE x

Adjacent(u, v) == u # v /\ Abs(u[1] - v[1]) <= 1 /\ Abs(u[2] - v[2]) <= 1

Nbrs(u) == {v \in Cells : Adjacent(u, v)}

\* ((cost[u] + cost[v]) / 2) x step, step = 1 (cardinal) or sqrt(2) (diagonal).
EdgeWeight(costs, u, v) ==
    IF u[1] # v[1] /\ u[2] # v[2]
    THEN [inf |-> FALSE, a |-> 0, b |-> costs[u] + costs[v]]
    ELSE [inf |-> FALSE, a |-> costs[u] + costs[v], b |-> 0]

Plus(x, y) ==
    IF x.inf \/ y.inf THEN Inf ELSE [inf |-> FALSE, a |-> x.a + y.a, b |-> x.b + y.b]

RECURSIVE PathCost(_, _)
PathCost(costs, path) ==
    IF Len(path) <= 1 THEN Zero
    ELSE Plus(PathCost(costs, SubSeq(path, 1, Len(path) - 1)),
              EdgeWeight(costs, path[Len(path) - 1], path[Len(path)]))

SeqRange(q) == {q[k] : k \in 1 .. Len(q)}

Reverse(q) == [k \in 1 .. Len(q) |-> q[Len(q) + 1 - k]]

\* Every 8-connected path without a repeated cell that extends q to e.
RECURSIVE SimplePaths(_, _)
SimplePaths(q, e) ==
    IF q[Len(q)] = e THEN {q}
    ELSE UNION {SimplePaths(Append(q, v), e) : v \in Nbrs(q[Len(q)]) \ SeqRange(q)}

\* An 8-connected, in-bounds path from s to e.
IsPath(q, s, e) ==
    /\ Len(q) >= 1
    /\ q[1] = s
    /\ q[Len(q)] = e
    /\ \A k \in 1 .. Len(q) : q[k] \in Cells
    /\ \A k \in 1 .. (Len(q) - 1) : Adjacent(q[k], q[k + 1])

MinOf(S) == CHOOSE x \in S : \A y \in S : Leq(x, y)

\* The minimum cost of an 8-connected path from s to e.  A path that
\* repeats a cell costs more than the path without the loop, so the minimum
\* is over the paths without a repeated cell.
MinCost(costs, s, e) == MinOf({PathCost(costs, q) : q \in SimplePaths(<<s>>, e)})

InBounds == start_rc \in Cells /\ end_rc \in Cells

Searching == pc \in {"loop", "traceback", "done"}

\* ------------------------------------------------------------- claims
\* C1: the path returned for in-bounds start and end costs no more than any
\* other 8-connected in-bounds path from start to end (edge weight
\* ((cost[a] + cost[b]) / 2) x step).
C1_LeastCost ==
    (pc = "done" /\ InBounds) =>
        /\ total_cost = PathCost(cost_array.val, indices)
        /\ \A q \in SimplePaths(<<start_rc>>, end_rc) :
               Leq(total_cost, PathCost(cost_array.val, q))

\* C1 witness: a finished search on a grid with both valid and penalty
\* cells where some other path from start to end is strictly dearer.
C1_Witness ==
    /\ pc = "done" /\ InBounds
    /\ Len(indices) >= 3
    /\ \E u, v \in Cells : cost_array.val[u] # cost_array.val[v]
    /\ \E q \in SimplePaths(<<start_rc>>, end_rc) :
           Less(total_cost, PathCost(cost_array.val, q))

\* C2: the returned path starts at start, ends at end, stays in bounds and
\* moves by one of the 8 neighbour offsets at every step.
C2_PathShape ==
    (pc = "done" /\ InBounds) =>
        /\ Len(indices) >= 1
        /\ indices[1] = start_rc
        /\ indices[Len(indices)] = end_rc
        /\ \A k \in 1 .. Len(indices) : indices[k] \in Cells
        /\ \A k \in 1 .. (Len(indices) - 1) :
               Adjacent(indices[k], indices[k + 1])

\* C2 witness: a returned path of at least three cells between distinct
\* in-bounds end points.
C2_Witness ==
    /\ pc = "done" /\ InBounds
    /\ start_rc # end_rc
    /\ Len(indices) >= 3

\* C3: the returned total cost is the sum of the edge weights along the
\* returned path, recomputed from the cost grid and the cell sequence.
C3_CostIsPathSum ==
    pc = "done" => total_cost = PathCost(cost_array.val, indices)

\* C3 witness: a returned path with a diagonal and a cardinal move.
C3_Witness ==
    /\ pc = "done"
    /\ total_cost.a > 0
    /\ total_cost.b > 0

\* Every cell holds the same valid elevation.
FlatDem == \A u, v \in Cells : ~dem[u].nan /\ dem[u] = dem[v]

\* C4: for a perfectly flat elevation grid the slope grid is all zeros and
\* every cell of the cost grid handed to the search is 1.
C4_FlatCostIsOne ==
    (pc = "route" /\ FlatDem) =>
        /\ \A rc \in Cells : slope[rc] = Fin(0)
        /\ \A rc \in Cells : cost_array.val[rc] = CostLow * cost_array.den

\* C5: a cell of valid slope has cost in [1, 10], 1 at the minimum slope,
\* 10 at the maximum, non-decreasing in slope; a cell of invalid slope has
\* cost 9999.
C5_CostRange ==
    pc = "route" =>
        LET c == cost_array.val
            d == cost_array.den
        IN  /\ \A rc \in Cells :
                   IF slope[rc].nan THEN c[rc] = Penalty * d
                   ELSE /\ CostLow * d <= c[rc]
                        /\ c[rc] <= (CostLow + CostSpan) * d
                        /\ (slope[rc] = GridMin(slope) => c[rc] = CostLow * d)
                        /\ (slope[rc] = GridMax(slope) => c[rc] = (CostLow + CostSpan) * d)
            /\ \A u, v \in Valid(slope) : slope[u].v <= slope[v].v => c[u] <= c[v]

\* C6: when start or end resolves outside the grid the pipeline fails and
\* never runs the search.
C6_OutOfBoundsFails ==
    (start_rc # NoIndex /\ ~InBounds) => ~Searching

\* C7: the search from e to s returns the reverse of the path from s to e,
\* with the same total cost, ties included.
C7_ReverseSymmetric ==
    (pc = "done" /\ InBounds) =>
        LET back == RouteThroughArray(cost_array.val, end_rc, start_rc)
        IN  /\ back.cost = total_cost
            /\ back.path = Reverse(indices)

\* Exactly one path of minimum cost joins start and end.
UniqueLeastPath ==
    Cardinality({q \in SimplePaths(<<start_rc>>, end_rc) :
                    PathCost(cost_array.val, q) = total_cost}) = 1

\* C7 amended: the search from e to s returns the same total cost and a path
\* whose reverse is a least-cost path from s to e; it is the reverse of the
\* path from s to e when the least-cost path is unique.
C7_ReverseSameCost ==
    (pc = "done" /\ InBounds) =>
        LET back == RouteThroughArray(cost_array.val, end_rc, start_rc)
        IN  /\ back.cost = total_cost
            /\ IsPath(Reverse(back.path), start_rc, end_rc)
            /\ PathCost(cost_array.val, Reverse(back.path)) = total_cost
            /\ (UniqueLeastPath => back.path = Reverse(indices))

\* C7 witness: a finished search of three or more cells whose least-cost
\* path is unique, on a grid of unequal costs.
C7_Witness ==
    /\ pc = "done" /\ InBounds
    /\ Len(indices) >= 3
    /\ UniqueLeastPath
    /\ \E u, v \in Cells : cost_array.val[u] # cost_array.val[v]

\* Every cell of the cost grid holds the same cost; twice that cost; the
\* row and column distances of the end points.
Uniform == \A u, v \in Cells : cost_array.val[u] = cost_array.val[v]

UnitCost == 2 * cost_array.val[<<0, 0>>]

RowDist == Abs(end_rc[1] - start_rc[1])
ColDist == Abs(end_rc[2] - start_rc[2])
Shorter == IF RowDist < ColDist THEN RowDist ELSE ColDist
Longer == IF RowDist < ColDist THEN ColDist ELSE RowDist

\* C8: on a grid of uniform cost c the total cost between two cells is c
\* times their Euclidean distance.  With A cardinal and B diagonal moves
\* the total is c x (A + B sqrt(2)), which is c x sqrt(n) exactly when
\* A B = 0 and A^2 + 2 B^2 = n.
C8_UniformEuclidean ==
    (pc = "done" /\ InBounds /\ Uniform) =>
        LET A == total_cost.a \div UnitCost
            B == total_cost.b \div UnitCost
        IN  /\ total_cost.a % UnitCost = 0
            /\ total_cost.b % UnitCost = 0
            /\ A * B = 0
            /\ A * A + 2 * B * B = RowDist * RowDist + ColDist * ColDist

\* C8 amended: on a grid of uniform cost c the total cost is c times the
\* octile distance, (longer - shorter) + shorter x sqrt(2), of the two cells.
C8_UniformOctile ==
    (pc = "done" /\ InBounds /\ Uniform) =>
        /\ total_cost.a = UnitCost * (Longer - Shorter)
        /\ total_cost.b = UnitCost * Shorter

\* C8 witness: a finished search on a uniform grid between cells that share
\* no row, column or diagonal.
C8_Witness ==
    /\ pc = "done" /\ InBounds /\ Uniform
    /\ Shorter > 0
    /\ Longer > Shorter

\* C9: a search with start = end returns the single cell and total cost 0,
\* whatever the cost of the cell.
C9_StartIsEnd ==
    (pc = "done" /\ InBounds /\ start_rc = end_rc) =>
        /\ indices = <<start_rc>>
        /\ total_cost = Zero

\* C9 witness: a finished search with start = end on a penalty cell.
C9_Witness ==
    /\ pc = "done" /\ InBounds
    /\ start_rc = end_rc
    /\ cost_array.val[start_rc] = Penalty * cost_array.den

\* The cells removed from the frontier.
Finalized == SeqRange(popped)

\* C10: in every state of the frontier expansion each cell was popped at
\* most once, a popped cell holds the minimum path cost from the start, its
\* predecessor is a popped 8-neighbour through which that cost is attained,
\* and nothing is expanded once the end cell is popped.
C10_Dijkstra ==
    Searching =>
            /\ \A j, k \in 1 .. Len(popped) : popped[j] = popped[k] => j = k
            /\ \A rc \in Cells :
                   rc \notin Finalized => flat_cumulative_costs[rc].inf
            /\ \A rc \in Finalized : flat_cumulative_costs[rc] = MinCost(cost_array.val, starts, rc)
            /\ \A rc \in Finalized :
                   IF rc = starts THEN traceback_offsets[rc] = -1
                   ELSE /\ traceback_offsets[rc] \in DOMAIN Offsets
                        /\ LET i == traceback_offsets[rc]
                               prev == <<rc[1] - Offsets[i][1], rc[2] - Offsets[i][2]>>
                           IN  /\ prev \in Finalized
                               /\ flat_cumulative_costs[rc] =
                                      Plus(flat_cumulative_costs[prev],
                                           EdgeWeight(cost_array.val, prev, rc))
            /\ (ends \in Finalized =>
                    /\ pc # "loop"
                    /\ popped[Len(popped)] = ends)
            /\ (pc # "loop" => ends \in Finalized)

\* C10 witness: the expansion is under way with three cells popped, one of
\* them reached through a predecessor other than the start.
C10_Witness ==
    /\ pc = "loop"
    /\ Len(popped) >= 3
    /\ \E rc \in Finalized :
           /\ rc # starts
           /\ Shift(rc, 7 - traceback_offsets[rc]) # starts
====
